---- MODULE Spec2Model ----
(***************************************************************************)
(* The loan ledger of pinjol (package domain): NewLoan derives the fixed   *)
(* 50-week schedule, MakePayment pays the first unpaid week,               *)
(* GetOutstanding recomputes the balance from the schedule.                *)
(*                                                                         *)
(* WeekIndexAt and IsDelinquent are its read-only queries.                 *)
(*                                                                         *)
(* Time is counted in whole hours.  The annual rate is carried as an       *)
(* integer number of percent (APR = aprPct / 100); over the inputs drawn   *)
(* here the float64 product principal * (1 + apr) rounds to the same       *)
(* integer as the exact rational.                                          *)
(***************************************************************************)
EXTENDS Integers, Sequences, FiniteSets, TLC

\* ---- program constants -------------------------------------------------
NumWeeks == 50
HoursPerDay == 24
DaysPerWeek == 7

\* The ceilings of ValidateCreateLoanRequest and the rate used when a
\* request carries none.
MaxAllowedPrincipal == 5000000
MaxAllowedAprPct == 50
DefaultAprPct == 10

\* ---- bounds of the model -----------------------------------------------
MaxPrincipal == 91
MaxAmount == 3
MaxClock == 1
\* The clock advances only while fewer than MaxTickWeek weeks are paid: the
\* first MaxTickWeek payments may fall on different instants, the later ones
\* fall on the instant of the last of them.
MaxTickWeek == 2
\* The queries are put at every day 0..MaxQueryDay after the start date and
\* at the days around the end of the term.
MaxQueryDay == 21

\* Highest array index among the first weeks marked paid by hand.
MaxMark == 2

\* Requests served in one run of the HTTP side, the create request included.
MaxRequests == 4
MaxStoredPayments == 3

Principals == (0 - MaxPrincipal)..MaxPrincipal
AprPcts == {0 - 5, 0, 10, 50}
Amounts == 0..MaxAmount
StartDates == {1}

\* Requests put to LoanService: principals around 0 and around the ceiling,
\* rates below 0, omitted (0), usual, at the ceiling and above it, amounts
\* that are not positive, too small, and the weekly dues of the loans made.
ServicePrincipals ==
  {0 - 50, 0, 50, 500, MaxAllowedPrincipal - 50, MaxAllowedPrincipal,
   MaxAllowedPrincipal + 1, MaxAllowedPrincipal + 50}
ServiceAprPcts == {0 - 5, 0, DefaultAprPct, MaxAllowedAprPct, MaxAllowedAprPct + 10}
ServiceAmounts == {0 - 110000, 0, 1, 100000, 110000}
StartDateStrs == {"2025-08-15", "15/08/2025"}

\* The amounts of the pay requests: not positive, and the weekly dues of the
\* loans the create handler stores.
HandlerAmounts == {0, 11, 110000}

\* The weeks the unit test of GetOutstanding marks paid by hand.
MarkWeeks == (0..MaxMark) \cup {NumWeeks - 1}

\* The requests served at the same time.
Procs == {1, 2}
\* Days after the start date at which the queries are put: the first weeks,
\* the last day of week 49, the first and the last day of week 50, the
\* first day after the term and a week later.
QueryDays ==
  (0..MaxQueryDay) \cup {DaysPerWeek * (NumWeeks - 1) - 1, DaysPerWeek * (NumWeeks - 1),
                         DaysPerWeek * NumWeeks - 1, DaysPerWeek * NumWeeks,
                         DaysPerWeek * (NumWeeks + 1)}
\* The instants of the queries: one hour before the start date, and the
\* first and the last hour of each query day.
QueryNows ==
  {0} \cup {s + HoursPerDay * d + h : s \in StartDates, d \in QueryDays,
                                     h \in {0, HoursPerDay - 1}}

\* ---- values -------------------------------------------------------------
Nil == "nil"
NoValue == "none"
\* A nil *Loan, a nil *time.Time and an absent int64 result; a value that is
\* present is the loan record, <<t>> and <<v>>.
NilLoan == [nil |-> TRUE]
NilTime == <<>>
NoResult == <<>>
NoLocal == [none |-> TRUE]
NoArgs == <<>>
ErrInvalidRequest == "invalid request"
ErrUnsupportedProduct == "weekly equal amount not integral"
ErrAlreadyPaid == "loan already fully paid"
ErrWrongAmount == "amount must equal this week's payable"

\* The ledger and its caller: the loan, the values of the last call, the
\* arguments of the last create request, the caller's clock and the
\* caller's counters (reads counts the GetOutstanding calls made since the
\* loan was created or a payment was attempted).
VARIABLES loan, err, ret, op, args, clock, calls, totalPaid, reads

\* The HTTP side: the stored loan of the one loan id, and for each request
\* in progress its position in the handler, its local variables, and the
\* responses sent so far.
VARIABLES store, pc, local, resp

lvars == <<loan, err, ret, op, args, clock, calls, totalPaid, reads>>

hvars == <<store, pc, local, resp>>

vars ==
  <<loan, err, ret, op, args, clock, calls, totalPaid, reads, store, pc, local, resp>>

\* ---- pure functions -----------------------------------------------------

\* Mutant: the product is converted to int64 without math.Round (truncation).
MathRound_Truncate(num, den) ==
  IF num >= 0 THEN num \div den ELSE 0 - ((0 - num) \div den)

\* math.Round of the rational num / den (den > 0): nearest integer, halves
\* away from zero.
MathRound(num, den) ==
  IF num >= 0 THEN (2 * num + den) \div (2 * den)
  ELSE 0 - ((2 * (0 - num) + den) \div (2 * den))

\* totalDue := int64(math.Round(float64(principal) * (1 + apr)))
TotalDue(principal, aprPct) == MathRound(principal * (100 + aprPct), 100)

\* Mutant: the schedule is numbered from 0 (Index: i for Index: i + 1).
Week_ZeroBased(index, amount) ==
  [Index |-> index - 1, Amount |-> amount, Paid |-> FALSE, PaidAt |-> NilTime]

\* One entry of Loan.Schedule.
Week(index, amount) ==
  [Index |-> index, Amount |-> amount, Paid |-> FALSE, PaidAt |-> NilTime]

\* Mutant: the principal and the rate are validated after the divisibility
\* check.
NewLoanResult_ValidateLate(id, principal, aprPct, startDate) ==
  LET totalDue == TotalDue(principal, aprPct) IN
  IF totalDue % NumWeeks # 0
  THEN [loan |-> NilLoan, err |-> ErrUnsupportedProduct]
  ELSE IF principal <= 0 THEN [loan |-> NilLoan, err |-> ErrInvalidRequest]
  ELSE IF aprPct < 0 THEN [loan |-> NilLoan, err |-> ErrInvalidRequest]
  ELSE LET weeklyDue == totalDue \div NumWeeks IN
      [loan |-> [ID |-> id,
                 Principal |-> principal,
                 APR |-> aprPct,
                 StartDate |-> startDate,
                 WeeklyDue |-> weeklyDue,
                 Schedule |-> [i \in 0..(NumWeeks - 1) |-> Week(i + 1, weeklyDue)],
                 PaidCount |-> 0,
                 Outstanding |-> totalDue],
       err |-> Nil]

\* NewLoan: the pair (loan, error) it returns.
NewLoanResult(id, principal, aprPct, startDate) ==
  IF principal <= 0 THEN [loan |-> NilLoan, err |-> ErrInvalidRequest]
  ELSE IF aprPct < 0 THEN [loan |-> NilLoan, err |-> ErrInvalidRequest]
  ELSE LET totalDue == TotalDue(principal, aprPct) IN
    IF totalDue % NumWeeks # 0
    THEN [loan |-> NilLoan, err |-> ErrUnsupportedProduct]
    ELSE LET weeklyDue == totalDue \div NumWeeks IN
      [loan |-> [ID |-> id,
                 Principal |-> principal,
                 APR |-> aprPct,
                 StartDate |-> startDate,
                 WeeklyDue |-> weeklyDue,
                 Schedule |-> [i \in 0..(NumWeeks - 1) |-> Week(i + 1, weeklyDue)],
                 PaidCount |-> 0,
                 Outstanding |-> totalDue],
       err |-> Nil]

\* The loop of GetOutstanding: the sum of Amount over the unpaid weeks
\* with array index below n.
RECURSIVE SumUnpaid(_, _)
SumUnpaid(schedule, n) ==
  IF n = 0 THEN 0
  ELSE SumUnpaid(schedule, n - 1)
       + (IF ~schedule[n - 1].Paid THEN schedule[n - 1].Amount ELSE 0)

\* Mutant: the sum starts from the cached field instead of 0.
GetOutstandingResult_Accumulate(l) ==
  LET outstanding == l.Outstanding + SumUnpaid(l.Schedule, NumWeeks) IN
  [loan |-> [l EXCEPT !.Outstanding = outstanding], ret |-> <<outstanding>>]

\* Mutant: the cached field is returned without looking at the schedule.
GetOutstandingResult_TrustCache(l) ==
  [loan |-> l, ret |-> <<l.Outstanding>>]

\* Mutant: the recomputation adds up every week, paid or not.
GetOutstandingResult_AllWeeks(l) ==
  LET outstanding == NumWeeks * l.Schedule[0].Amount IN
  [loan |-> [l EXCEPT !.Outstanding = outstanding], ret |-> <<outstanding>>]

\* GetOutstanding: the loan after the call and the value returned.
GetOutstandingResult(l) ==
  LET outstanding == SumUnpaid(l.Schedule, NumWeeks) IN
  [loan |-> [l EXCEPT !.Outstanding = outstanding], ret |-> <<outstanding>>]

\* Mutant: the scan keeps the last unpaid week instead of stopping at the
\* first one (the break is missing).
FirstUnpaidIndex_NoBreak(schedule) ==
  IF \E i \in 0..(NumWeeks - 1) : ~schedule[i].Paid
  THEN CHOOSE i \in 0..(NumWeeks - 1) :
         /\ ~schedule[i].Paid
         /\ \A j \in (i + 1)..(NumWeeks - 1) : schedule[j].Paid
  ELSE 0 - 1

\* Mutant: the scan stops one week short of the end of the schedule.
FirstUnpaidIndex_ShortScan(schedule) ==
  IF \E i \in 0..(NumWeeks - 2) : ~schedule[i].Paid
  THEN CHOOSE i \in 0..(NumWeeks - 2) :
         /\ ~schedule[i].Paid
         /\ \A j \in 0..(i - 1) : schedule[j].Paid
  ELSE 0 - 1

\* The scan of MakePayment: array index of the first unpaid week, -1 if none.
FirstUnpaidIndex(schedule) ==
  LET unpaid == {i \in 0..(NumWeeks - 1) : ~schedule[i].Paid} IN
  IF unpaid = {} THEN 0 - 1
  ELSE CHOOSE i \in unpaid : \A j \in unpaid : i <= j

\* Mutant: the payment does not reduce the cached Outstanding.
MakePaymentResult_NoDecrement(l, amount, now) ==
  LET firstUnpaidIndex == FirstUnpaidIndex(l.Schedule) IN
  IF firstUnpaidIndex = 0 - 1 THEN [loan |-> l, err |-> ErrAlreadyPaid]
  ELSE IF amount # l.Schedule[firstUnpaidIndex].Amount
  THEN [loan |-> l, err |-> ErrWrongAmount]
  ELSE [loan |-> [l EXCEPT !.Schedule[firstUnpaidIndex].Paid = TRUE,
                           !.Schedule[firstUnpaidIndex].PaidAt = <<now>>,
                           !.PaidCount = @ + 1,
                           !.Outstanding = @],
        err |-> Nil]

\* Mutant: the payment does not advance PaidCount.
MakePaymentResult_NoCount(l, amount, now) ==
  LET firstUnpaidIndex == FirstUnpaidIndex(l.Schedule) IN
  IF firstUnpaidIndex = 0 - 1 THEN [loan |-> l, err |-> ErrAlreadyPaid]
  ELSE IF amount # l.Schedule[firstUnpaidIndex].Amount
  THEN [loan |-> l, err |-> ErrWrongAmount]
  ELSE [loan |-> [l EXCEPT !.Schedule[firstUnpaidIndex].Paid = TRUE,
                           !.Schedule[firstUnpaidIndex].PaidAt = <<now>>,
                           !.PaidCount = @,
                           !.Outstanding = @ - amount],
        err |-> Nil]

\* Mutant: the payment counts PaidCount down instead of up.
MakePaymentResult_CountDown(l, amount, now) ==
  LET firstUnpaidIndex == FirstUnpaidIndex(l.Schedule) IN
  IF firstUnpaidIndex = 0 - 1 THEN [loan |-> l, err |-> ErrAlreadyPaid]
  ELSE IF amount # l.Schedule[firstUnpaidIndex].Amount
  THEN [loan |-> l, err |-> ErrWrongAmount]
  ELSE [loan |-> [l EXCEPT !.Schedule[firstUnpaidIndex].Paid = TRUE,
                           !.Schedule[firstUnpaidIndex].PaidAt = <<now>>,
                           !.PaidCount = @ - 1,
                           !.Outstanding = @ - amount],
        err |-> Nil]

\* Mutant: the payment marks the week paid but does not record PaidAt.
MakePaymentResult_NoPaidAt(l, amount, now) ==
  LET firstUnpaidIndex == FirstUnpaidIndex(l.Schedule) IN
  IF firstUnpaidIndex = 0 - 1 THEN [loan |-> l, err |-> ErrAlreadyPaid]
  ELSE IF amount # l.Schedule[firstUnpaidIndex].Amount
  THEN [loan |-> l, err |-> ErrWrongAmount]
  ELSE [loan |-> [l EXCEPT !.Schedule[firstUnpaidIndex].Paid = TRUE,
                           !.Schedule[firstUnpaidIndex].PaidAt = @,
                           !.PaidCount = @ + 1,
                           !.Outstanding = @ - amount],
        err |-> Nil]

\* Mutant: only an amount below the week's amount is refused (< for #).
MakePaymentResult_Overpay(l, amount, now) ==
  LET firstUnpaidIndex == FirstUnpaidIndex(l.Schedule) IN
  IF firstUnpaidIndex = 0 - 1 THEN [loan |-> l, err |-> ErrAlreadyPaid]
  ELSE IF amount < l.Schedule[firstUnpaidIndex].Amount
  THEN [loan |-> l, err |-> ErrWrongAmount]
  ELSE [loan |-> [l EXCEPT !.Schedule[firstUnpaidIndex].Paid = TRUE,
                           !.Schedule[firstUnpaidIndex].PaidAt = <<now>>,
                           !.PaidCount = @ + 1,
                           !.Outstanding = @ - amount],
        err |-> Nil]

\* Mutant: the amount is compared with WeeklyDue before the already-paid check.
MakePaymentResult_AmountFirst(l, amount, now) ==
  LET firstUnpaidIndex == FirstUnpaidIndex(l.Schedule) IN
  IF amount # l.WeeklyDue THEN [loan |-> l, err |-> ErrWrongAmount]
  ELSE IF firstUnpaidIndex = 0 - 1 THEN [loan |-> l, err |-> ErrAlreadyPaid]
  ELSE [loan |-> [l EXCEPT !.Schedule[firstUnpaidIndex].Paid = TRUE,
                           !.Schedule[firstUnpaidIndex].PaidAt = <<now>>,
                           !.PaidCount = @ + 1,
                           !.Outstanding = @ - amount],
        err |-> Nil]

\* Mutant: PaidAt is stamped with the loan's start date instead of now.
MakePaymentResult_StampStart(l, amount, now) ==
  LET firstUnpaidIndex == FirstUnpaidIndex(l.Schedule) IN
  IF firstUnpaidIndex = 0 - 1 THEN [loan |-> l, err |-> ErrAlreadyPaid]
  ELSE IF amount # l.Schedule[firstUnpaidIndex].Amount
  THEN [loan |-> l, err |-> ErrWrongAmount]
  ELSE [loan |-> [l EXCEPT !.Schedule[firstUnpaidIndex].Paid = TRUE,
                           !.Schedule[firstUnpaidIndex].PaidAt = <<l.StartDate>>,
                           !.PaidCount = @ + 1,
                           !.Outstanding = @ - amount],
        err |-> Nil]

\* Mutant: a week can be paid only once it has started (now on or after
\* the start of the week); an early payment is refused as a wrong amount.
MakePaymentResult_DueOnly(l, amount, now) ==
  LET firstUnpaidIndex == FirstUnpaidIndex(l.Schedule) IN
  IF firstUnpaidIndex = 0 - 1 THEN [loan |-> l, err |-> ErrAlreadyPaid]
  ELSE IF amount # l.Schedule[firstUnpaidIndex].Amount
  THEN [loan |-> l, err |-> ErrWrongAmount]
  ELSE IF now < l.StartDate + firstUnpaidIndex * DaysPerWeek * HoursPerDay
  THEN [loan |-> l, err |-> ErrWrongAmount]
  ELSE [loan |-> [l EXCEPT !.Schedule[firstUnpaidIndex].Paid = TRUE,
                           !.Schedule[firstUnpaidIndex].PaidAt = <<now>>,
                           !.PaidCount = @ + 1,
                           !.Outstanding = @ - amount],
        err |-> Nil]

\* Mutant: the amount of a week is cleared when the week is paid.
MakePaymentResult_ZeroAmount(l, amount, now) ==
  LET firstUnpaidIndex == FirstUnpaidIndex(l.Schedule) IN
  IF firstUnpaidIndex = 0 - 1 THEN [loan |-> l, err |-> ErrAlreadyPaid]
  ELSE IF amount # l.Schedule[firstUnpaidIndex].Amount
  THEN [loan |-> l, err |-> ErrWrongAmount]
  ELSE [loan |-> [l EXCEPT !.Schedule[firstUnpaidIndex].Paid = TRUE,
                           !.Schedule[firstUnpaidIndex].PaidAt = <<now>>,
                           !.Schedule[firstUnpaidIndex].Amount = 0,
                           !.PaidCount = @ + 1,
                           !.Outstanding = @ - amount],
        err |-> Nil]

\* Mutant: the payment is also taken off the principal.
MakePaymentResult_PrincipalDown(l, amount, now) ==
  LET firstUnpaidIndex == FirstUnpaidIndex(l.Schedule) IN
  IF firstUnpaidIndex = 0 - 1 THEN [loan |-> l, err |-> ErrAlreadyPaid]
  ELSE IF amount # l.Schedule[firstUnpaidIndex].Amount
  THEN [loan |-> l, err |-> ErrWrongAmount]
  ELSE [loan |-> [l EXCEPT !.Schedule[firstUnpaidIndex].Paid = TRUE,
                           !.Schedule[firstUnpaidIndex].PaidAt = <<now>>,
                           !.Principal = @ - amount,
                           !.PaidCount = @ + 1,
                           !.Outstanding = @ - amount],
        err |-> Nil]

\* Mutant: with no unpaid week left the payment is booked on the last week
\* again instead of being refused.
MakePaymentResult_PayAgain(l, amount, now) ==
  LET firstUnpaid == FirstUnpaidIndex(l.Schedule)
      firstUnpaidIndex == IF firstUnpaid = 0 - 1 THEN NumWeeks - 1
                          ELSE firstUnpaid IN
  IF amount # l.Schedule[firstUnpaidIndex].Amount
  THEN [loan |-> l, err |-> ErrWrongAmount]
  ELSE [loan |-> [l EXCEPT !.Schedule[firstUnpaidIndex].Paid = TRUE,
                           !.Schedule[firstUnpaidIndex].PaidAt = <<now>>,
                           !.PaidCount = @ + 1,
                           !.Outstanding = @ - amount],
        err |-> Nil]

\* MakePayment: the loan after the call and the error returned.
MakePaymentResult(l, amount, now) ==
  LET firstUnpaidIndex == FirstUnpaidIndex(l.Schedule) IN
  IF firstUnpaidIndex = 0 - 1 THEN [loan |-> l, err |-> ErrAlreadyPaid]
  ELSE IF amount # l.Schedule[firstUnpaidIndex].Amount
  THEN [loan |-> l, err |-> ErrWrongAmount]
  ELSE [loan |-> [l EXCEPT !.Schedule[firstUnpaidIndex].Paid = TRUE,
                           !.Schedule[firstUnpaidIndex].PaidAt = <<now>>,
                           !.PaidCount = @ + 1,
                           !.Outstanding = @ - amount],
        err |-> Nil]

\* Mutant: an instant before the start date is week 0.
WeekIndexAtResult_ZeroBefore(l, now) ==
  IF now < l.StartDate THEN 0
  ELSE LET daysSinceStart == (now - l.StartDate) \div HoursPerDay
           weekIndex == (daysSinceStart \div DaysPerWeek) + 1 IN
       IF weekIndex > NumWeeks THEN NumWeeks ELSE weekIndex

\* Mutant: the week index is not capped at the end of the term.
WeekIndexAtResult_NoCap(l, now) ==
  IF now < l.StartDate THEN 1
  ELSE LET daysSinceStart == (now - l.StartDate) \div HoursPerDay IN
       (daysSinceStart \div DaysPerWeek) + 1

\* Mutant: after the term the week index starts again at 1 (modulo for cap).
WeekIndexAtResult_Wrap(l, now) ==
  IF now < l.StartDate THEN 1
  ELSE LET daysSinceStart == (now - l.StartDate) \div HoursPerDay IN
       ((daysSinceStart \div DaysPerWeek) % NumWeeks) + 1

\* WeekIndexAt: the week index (1..50) of the instant now.
WeekIndexAtResult(l, now) ==
  IF now < l.StartDate THEN 1
  ELSE LET daysSinceStart == (now - l.StartDate) \div HoursPerDay
           weekIndex == (daysSinceStart \div DaysPerWeek) + 1 IN
       IF weekIndex > NumWeeks THEN NumWeeks ELSE weekIndex

\* Mutant: the early return also covers week 3 (observedWeek <= 3).
IsDelinquentResult_Week3Early(l, now) ==
  LET observedWeek == WeekIndexAtResult(l, now) IN
  IF observedWeek <= 3 THEN <<FALSE, 0, observedWeek>>
  ELSE LET week1Index == observedWeek - 2
           week2Index == observedWeek - 1 IN
       IF /\ week1Index >= 0 /\ week1Index < NumWeeks
          /\ week2Index >= 0 /\ week2Index < NumWeeks
          /\ ~l.Schedule[week1Index].Paid
          /\ ~l.Schedule[week2Index].Paid
       THEN <<TRUE, 2, observedWeek>>
       ELSE <<FALSE, 0, observedWeek>>

\* Mutant: the streak counts the unpaid weeks among the two inspected.
IsDelinquentResult_CountStreak(l, now) ==
  LET observedWeek == WeekIndexAtResult(l, now) IN
  IF observedWeek < 3 THEN <<FALSE, 0, observedWeek>>
  ELSE LET week1Index == observedWeek - 2
           week2Index == observedWeek - 1 IN
       IF /\ week1Index >= 0 /\ week1Index < NumWeeks
          /\ week2Index >= 0 /\ week2Index < NumWeeks
       THEN IF ~l.Schedule[week1Index].Paid /\ ~l.Schedule[week2Index].Paid
            THEN <<TRUE, 2, observedWeek>>
            ELSE IF ~l.Schedule[week1Index].Paid \/ ~l.Schedule[week2Index].Paid
            THEN <<FALSE, 1, observedWeek>>
            ELSE <<FALSE, 0, observedWeek>>
       ELSE <<FALSE, 0, observedWeek>>

\* Mutant: one unpaid week of the two is enough (|| for &&).
IsDelinquentResult_EitherUnpaid(l, now) ==
  LET observedWeek == WeekIndexAtResult(l, now) IN
  IF observedWeek < 3 THEN <<FALSE, 0, observedWeek>>
  ELSE LET week1Index == observedWeek - 2
           week2Index == observedWeek - 1 IN
       IF /\ week1Index >= 0 /\ week1Index < NumWeeks
          /\ week2Index >= 0 /\ week2Index < NumWeeks
          /\ (~l.Schedule[week1Index].Paid \/ ~l.Schedule[week2Index].Paid)
       THEN <<TRUE, 2, observedWeek>>
       ELSE <<FALSE, 0, observedWeek>>

\* Mutant: the two weeks are tested for Paid instead of !Paid.
IsDelinquentResult_Negated(l, now) ==
  LET observedWeek == WeekIndexAtResult(l, now) IN
  IF observedWeek < 3 THEN <<FALSE, 0, observedWeek>>
  ELSE LET week1Index == observedWeek - 2
           week2Index == observedWeek - 1 IN
       IF /\ week1Index >= 0 /\ week1Index < NumWeeks
          /\ week2Index >= 0 /\ week2Index < NumWeeks
          /\ l.Schedule[week1Index].Paid
          /\ l.Schedule[week2Index].Paid
       THEN <<TRUE, 2, observedWeek>>
       ELSE <<FALSE, 0, observedWeek>>

\* IsDelinquent: the triple (delinquent, streak, observedWeek) it returns.
\* week1Index and week2Index are used as indices of the Schedule array.
IsDelinquentResult(l, now) ==
  LET observedWeek == WeekIndexAtResult(l, now) IN
  IF observedWeek < 3 THEN <<FALSE, 0, observedWeek>>
  ELSE LET week1Index == observedWeek - 2
           week2Index == observedWeek - 1 IN
       IF /\ week1Index >= 0 /\ week1Index < NumWeeks
          /\ week2Index >= 0 /\ week2Index < NumWeeks
          /\ ~l.Schedule[week1Index].Paid
          /\ ~l.Schedule[week2Index].Paid
       THEN <<TRUE, 2, observedWeek>>
       ELSE <<FALSE, 0, observedWeek>>

\* ---- LoanService ---------------------------------------------------------

\* The errors of the validators (fmt.Errorf) and the codes of the
\* ValidationError and BusinessError values the request methods return.
ErrPrincipalNotPositive == "principal must be greater than 0"
ErrPrincipalTooHigh == "principal exceeds maximum allowed limit"
ErrRateNegative == "annual rate cannot be negative"
ErrRateTooHigh == "annual rate exceeds maximum allowed limit"
ErrAmountNotPositive == "payment amount must be greater than 0"
CodeInvalidStartDateFormat == "INVALID_START_DATE_FORMAT"
CodeInvalidPrincipal == "INVALID_PRINCIPAL"
CodePrincipalTooHigh == "PRINCIPAL_TOO_HIGH"
CodeInvalidAnnualRate == "INVALID_ANNUAL_RATE"
CodeAnnualRateTooHigh == "ANNUAL_RATE_TOO_HIGH"
CodeInvalidLoanParameters == "INVALID_LOAN_PARAMETERS"
CodeNonIntegralWeeklyPayment == "NON_INTEGRAL_WEEKLY_PAYMENT"
CodeInvalidPaymentAmount == "INVALID_PAYMENT_AMOUNT"
CodeNoUnpaidWeeks == "NO_UNPAID_WEEKS"
CodeLoanAlreadyPaid == "LOAN_ALREADY_PAID"
CodeIncorrectPaymentAmount == "INCORRECT_PAYMENT_AMOUNT"
CodePaymentFailed == "PAYMENT_FAILED"

\* Mutant: the ceilings are not checked.
ValidateCreateLoanRequest_NoCeiling(principal, aprPct) ==
  IF principal <= 0 THEN ErrPrincipalNotPositive
  ELSE IF aprPct < 0 THEN ErrRateNegative
  ELSE Nil

\* ValidateCreateLoanRequest: the error returned, Nil for a valid request.
ValidateCreateLoanRequest(principal, aprPct) ==
  IF principal <= 0 THEN ErrPrincipalNotPositive
  ELSE IF principal > MaxAllowedPrincipal THEN ErrPrincipalTooHigh
  ELSE IF aprPct < 0 THEN ErrRateNegative
  ELSE IF aprPct > MaxAllowedAprPct THEN ErrRateTooHigh
  ELSE Nil

\* LoanService.CreateLoan: the pair (loan, error) it returns.
CreateLoanResult(id, principal, aprPct, startDate) ==
  LET v == ValidateCreateLoanRequest(principal, aprPct) IN
  IF v # Nil THEN [loan |-> NilLoan, err |-> v]
  ELSE NewLoanResult(id, principal, aprPct, startDate)

\* time.Parse("2006-01-02", s): <<date>>, or <<>> when s has another layout.
ParseStartDate(startDateStr) ==
  IF startDateStr = "2025-08-15" THEN <<1>> ELSE <<>>

\* mapValidationError: the code of the ValidationError for a refused request.
mapValidationError(principal, aprPct) ==
  IF principal <= 0 THEN CodeInvalidPrincipal
  ELSE IF principal > MaxAllowedPrincipal THEN CodePrincipalTooHigh
  ELSE IF aprPct < 0 THEN CodeInvalidAnnualRate
  ELSE IF aprPct > MaxAllowedAprPct THEN CodeAnnualRateTooHigh
  ELSE CodeInvalidLoanParameters

\* mapBusinessError: the code of the BusinessError for an error of NewLoan.
mapBusinessError(e) ==
  IF e = ErrUnsupportedProduct THEN CodeNonIntegralWeeklyPayment
  ELSE CodeInvalidLoanParameters

\* convertLoanToResponse: the LoanResponse copied from the loan.
convertLoanToResponse(l) ==
  [ID |-> l.ID,
   Principal |-> l.Principal,
   APR |-> l.APR,
   StartDate |-> l.StartDate,
   WeeklyDue |-> l.WeeklyDue,
   Schedule |-> [i \in DOMAIN l.Schedule |->
                   [Index |-> l.Schedule[i].Index,
                    Amount |-> l.Schedule[i].Amount,
                    Paid |-> l.Schedule[i].Paid,
                    PaidAt |-> l.Schedule[i].PaidAt]],
   PaidCount |-> l.PaidCount,
   Outstanding |-> l.Outstanding]

\* Mutant: an omitted rate stays 0.
CreateLoanFromRequestResult_NoDefault(principal, aprPct, startDateStr) ==
  LET parsed == ParseStartDate(startDateStr) IN
  IF parsed = <<>> THEN [ret |-> NoResult, err |-> CodeInvalidStartDateFormat]
  ELSE
    LET annualRate == aprPct
        v == ValidateCreateLoanRequest(principal, annualRate) IN
    IF v # Nil
    THEN [ret |-> NoResult, err |-> mapValidationError(principal, annualRate)]
    ELSE LET r == CreateLoanResult("L1", principal, annualRate, parsed[1]) IN
         IF r.err # Nil THEN [ret |-> NoResult, err |-> mapBusinessError(r.err)]
         ELSE [ret |-> <<convertLoanToResponse(r.loan)>>, err |-> Nil]

\* CreateLoanFromRequest: the pair (response, error) it returns.
CreateLoanFromRequestResult(principal, aprPct, startDateStr) ==
  LET parsed == ParseStartDate(startDateStr) IN
  IF parsed = <<>> THEN [ret |-> NoResult, err |-> CodeInvalidStartDateFormat]
  ELSE
    LET annualRate == IF aprPct = 0 THEN DefaultAprPct ELSE aprPct
        v == ValidateCreateLoanRequest(principal, annualRate) IN
    IF v # Nil
    THEN [ret |-> NoResult, err |-> mapValidationError(principal, annualRate)]
    ELSE LET r == CreateLoanResult("L1", principal, annualRate, parsed[1]) IN
         IF r.err # Nil THEN [ret |-> NoResult, err |-> mapBusinessError(r.err)]
         ELSE [ret |-> <<convertLoanToResponse(r.loan)>>, err |-> Nil]

\* Mutant: only a negative amount is refused (amount < 0).
ValidatePaymentRequest_ZeroPasses(amount) ==
  IF amount < 0 THEN ErrAmountNotPositive ELSE Nil

\* Mutant: an amount of 1 is refused too (amount <= 1).
ValidatePaymentRequest_MinTwo(amount) ==
  IF amount <= 1 THEN ErrAmountNotPositive ELSE Nil

\* ValidatePaymentRequest: the error returned, Nil for a valid request.
ValidatePaymentRequest(amount) ==
  IF amount <= 0 THEN ErrAmountNotPositive ELSE Nil

\* LoanService.ProcessPayment: the loan after the call and the error.
ProcessPaymentResult(l, amount, now) ==
  LET v == ValidatePaymentRequest(amount) IN
  IF v # Nil THEN [loan |-> l, err |-> v]
  ELSE MakePaymentResult(l, amount, now)

\* mapPaymentBusinessError: the code of the BusinessError for an error of
\* ProcessPayment.
mapPaymentBusinessError(e) ==
  IF e = ErrAlreadyPaid THEN CodeLoanAlreadyPaid
  ELSE IF e = ErrWrongAmount THEN CodeIncorrectPaymentAmount
  ELSE CodePaymentFailed

\* Mutant: the week reported is the array index of the week paid.
ProcessPaymentFromRequestResult_ZeroBased(l, amount, now) ==
  LET v == ValidatePaymentRequest(amount) IN
  IF v # Nil THEN [loan |-> l, ret |-> NoResult, err |-> CodeInvalidPaymentAmount]
  ELSE
    LET i == FirstUnpaidIndex(l.Schedule)
        firstUnpaidWeek == IF i = 0 - 1 THEN 0 ELSE i + 1 IN
    IF firstUnpaidWeek = 0
    THEN [loan |-> l, ret |-> NoResult, err |-> CodeNoUnpaidWeeks]
    ELSE LET r == ProcessPaymentResult(l, amount, now) IN
         IF r.err # Nil
         THEN [loan |-> r.loan, ret |-> NoResult,
               err |-> mapPaymentBusinessError(r.err)]
         ELSE LET g == GetOutstandingResult(r.loan) IN
              [loan |-> g.loan, ret |-> <<i, g.ret[1]>>, err |-> Nil]

\* ProcessPaymentFromRequest: the loan after the call, the response
\* (PaidWeek, RemainingOutstanding) and the error.
ProcessPaymentFromRequestResult(l, amount, now) ==
  LET v == ValidatePaymentRequest(amount) IN
  IF v # Nil THEN [loan |-> l, ret |-> NoResult, err |-> CodeInvalidPaymentAmount]
  ELSE
    LET i == FirstUnpaidIndex(l.Schedule)
        firstUnpaidWeek == IF i = 0 - 1 THEN 0 ELSE i + 1 IN
    IF firstUnpaidWeek = 0
    THEN [loan |-> l, ret |-> NoResult, err |-> CodeNoUnpaidWeeks]
    ELSE LET r == ProcessPaymentResult(l, amount, now) IN
         IF r.err # Nil
         THEN [loan |-> r.loan, ret |-> NoResult,
               err |-> mapPaymentBusinessError(r.err)]
         ELSE LET g == GetOutstandingResult(r.loan) IN
              [loan |-> g.loan, ret |-> <<firstUnpaidWeek, g.ret[1]>>, err |-> Nil]

\* ---- repository and handlers ---------------------------------------------

CodeLoanNotFound == "LOAN_NOT_FOUND"
ErrLoanNotFound == "loan not found"
ErrInsertLoan == "failed to insert loan"
StatusOK == 200
StatusCreated == 201
StatusBadRequest == 400
StatusNotFound == 404

\* A JSON response: the handler that sent it, the HTTP status, the error
\* code, and the paid week and remaining outstanding of a payment response.
Response(handler, status, code, paidWeek, remaining) ==
  [handler |-> handler, status |-> status, code |-> code,
   paidWeek |-> paidWeek, remaining |-> remaining]

\* schedule := [50]domain.Week{}
ZeroSchedule ==
  [i \in 0..(NumWeeks - 1) |->
     [Index |-> 0, Amount |-> 0, Paid |-> FALSE, PaidAt |-> NilTime]]

\* loan.StartDate.Format(time.RFC3339) and time.Parse(time.RFC3339, s): the
\* text keeps the date and the time of day of an instant.
FormatRFC3339(t) == [date |-> t \div HoursPerDay, hour |-> t % HoursPerDay]
ParseRFC3339(str) == str.date * HoursPerDay + str.hour

\* Create: one transaction that inserts the row of table loans, the start
\* date as text, and one row of loan_schedule for every week of the loan;
\* a row with the same id makes the first insert fail.
CreateResult(st, l) ==
  IF st # NilLoan THEN [store |-> st, err |-> ErrInsertLoan]
  ELSE [store |-> [l EXCEPT !.StartDate = FormatRFC3339(@)], err |-> Nil]

\* GetByID, first query: the row of table loans, the start date parsed; the
\* schedule of the loan being built is still the zero array.
GetByIDLoan(st) ==
  [st EXCEPT !.StartDate = ParseRFC3339(@), !.Schedule = ZeroSchedule]

\* Mutant: the row of week_index is put at schedule[week_index], and dropped
\* when that is outside the array.
GetByIDSchedule_OffByOne(l, st) ==
  [l EXCEPT !.Schedule =
     [i \in 0..(NumWeeks - 1) |->
        LET rows == {j \in DOMAIN st.Schedule : st.Schedule[j].Index = i} IN
        IF rows = {} THEN ZeroSchedule[i]
        ELSE st.Schedule[CHOOSE j \in rows : \A h \in rows : j >= h]]]

\* GetByID, second query: each row of loan_schedule with week_index in
\* 1..50 is put at schedule[week_index - 1].
GetByIDSchedule(l, st) ==
  [l EXCEPT !.Schedule =
     [i \in 0..(NumWeeks - 1) |->
        LET rows == {j \in DOMAIN st.Schedule : st.Schedule[j].Index = i + 1} IN
        IF rows = {} THEN ZeroSchedule[i]
        ELSE st.Schedule[CHOOSE j \in rows : \A h \in rows : j >= h]]]

\* Update: one transaction that sets the columns of the loans row and, for
\* every week of the loan, amount, paid and paid_at of the loan_schedule row
\* with that week_index.
UpdateResult(st, l) ==
  IF st = NilLoan THEN st
  ELSE [st EXCEPT !.Principal = l.Principal,
                  !.APR = l.APR,
                  !.StartDate = FormatRFC3339(l.StartDate),
                  !.WeeklyDue = l.WeeklyDue,
                  !.PaidCount = l.PaidCount,
                  !.Outstanding = l.Outstanding,
                  !.Schedule =
                    [j \in DOMAIN st.Schedule |->
                       LET weeks == {i \in DOMAIN l.Schedule :
                                       l.Schedule[i].Index = st.Schedule[j].Index} IN
                       IF weeks = {} THEN st.Schedule[j]
                       ELSE LET week == l.Schedule[CHOOSE i \in weeks :
                                                     \A h \in weeks : i >= h] IN
                            [st.Schedule[j] EXCEPT !.Amount = week.Amount,
                                                   !.Paid = week.Paid,
                                                   !.PaidAt = week.PaidAt]]]

\* GetByID: the loan returned and the error; no row of table loans gives
\* ErrLoanNotFound.
GetByIDResult(st) ==
  IF st = NilLoan THEN [ret |-> NoResult, err |-> ErrLoanNotFound]
  ELSE [ret |-> <<GetByIDSchedule(GetByIDLoan(st), st)>>, err |-> Nil]

\* Delete: the row of table loans is deleted; without it GetByID reads
\* nothing of the loan.
DeleteResult(st) == NilLoan

\* The error code of the pay handler for an error of ProcessPayment.
PayErrorCode(e) ==
  IF e = ErrAlreadyPaid THEN CodeLoanAlreadyPaid
  ELSE IF e = ErrWrongAmount THEN CodeIncorrectPaymentAmount
  ELSE CodePaymentFailed

\* ---- state machine ------------------------------------------------------

\* No request is in progress and nothing is stored.
NoRequests ==
  /\ store = NilLoan
  /\ pc = [p \in Procs |-> "idle"]
  /\ local = [p \in Procs |-> NoLocal]
  /\ resp = <<>>

Init ==
  /\ loan = NilLoan
  /\ err = NoValue
  /\ ret = NoResult
  /\ op = NoValue
  /\ args = NoArgs
  /\ clock = 0
  /\ calls = 0
  /\ totalPaid = 0
  /\ reads = 0
  /\ NoRequests

\* loan, err := NewLoan("L1", principal, apr, startDate)
NewLoan(principal, aprPct, startDate) ==
  /\ LET r == NewLoanResult("L1", principal, aprPct, startDate) IN
       /\ loan' = r.loan
       /\ err' = r.err
  /\ ret' = NoResult
  /\ op' = "NewLoan"
  /\ calls' = 0
  /\ totalPaid' = 0
  /\ reads' = 0
  /\ UNCHANGED clock
  /\ args' = NoArgs
  /\ UNCHANGED hvars

\* err := loan.MakePayment(amount, now), with now the caller's clock; the
\* caller adds the amount to its running total when the payment succeeded
\* and counts the calls made with the weekly due.
MakePayment(amount) ==
  /\ loan # NilLoan
  /\ LET r == MakePaymentResult(loan, amount, clock) IN
       /\ loan' = r.loan
       /\ err' = r.err
       /\ totalPaid' = IF r.err = Nil THEN totalPaid + amount ELSE totalPaid
  /\ calls' = IF amount = loan.WeeklyDue /\ calls <= NumWeeks
              THEN calls + 1 ELSE calls
  /\ ret' = NoResult
  /\ op' = "MakePayment"
  /\ reads' = 0
  /\ UNCHANGED clock
  /\ args' = NoArgs
  /\ UNCHANGED hvars

\* outstanding := loan.GetOutstanding()
GetOutstanding ==
  /\ loan # NilLoan
  /\ LET r == GetOutstandingResult(loan) IN
       /\ loan' = r.loan
       /\ ret' = r.ret
  /\ err' = NoValue
  /\ op' = "GetOutstanding"
  /\ reads' = IF reads < 2 THEN reads + 1 ELSE reads
  /\ UNCHANGED <<clock, calls, totalPaid>>
  /\ args' = NoArgs
  /\ UNCHANGED hvars

\* week := loan.WeekIndexAt(now), with now the caller's clock.
WeekIndexAt ==
  /\ loan # NilLoan
  /\ ret' = <<WeekIndexAtResult(loan, clock)>>
  /\ err' = NoValue
  /\ op' = "WeekIndexAt"
  /\ UNCHANGED <<loan, clock, calls, totalPaid, reads>>
  /\ args' = NoArgs
  /\ UNCHANGED hvars

\* Mutant: a delinquent result books one weekly due as a late fee on the
\* loan's Outstanding.
IsDelinquent_LateFee ==
  /\ loan # NilLoan
  /\ ret' = IsDelinquentResult(loan, clock)
  /\ loan' = IF IsDelinquentResult(loan, clock)[1]
             THEN [loan EXCEPT !.Outstanding = @ + loan.WeeklyDue]
             ELSE loan
  /\ err' = NoValue
  /\ op' = "IsDelinquent"
  /\ UNCHANGED <<clock, calls, totalPaid, reads>>
  /\ args' = NoArgs
  /\ UNCHANGED hvars

\* delinquent, streak, observedWeek := loan.IsDelinquent(now), with now the
\* caller's clock.
IsDelinquent ==
  /\ loan # NilLoan
  /\ ret' = IsDelinquentResult(loan, clock)
  /\ err' = NoValue
  /\ op' = "IsDelinquent"
  /\ UNCHANGED <<loan, clock, calls, totalPaid, reads>>
  /\ args' = NoArgs
  /\ UNCHANGED hvars

\* The caller creates its loan once: it calls NewLoan until a loan is returned.
CreateLoan ==
  /\ loan = NilLoan
  /\ \E principal \in Principals, aprPct \in AprPcts, startDate \in StartDates :
       NewLoan(principal, aprPct, startDate)

\* An hour passes on the caller's clock (time.Now() of the pay handler).
Tick ==
  /\ clock < MaxClock
  /\ IF loan = NilLoan THEN TRUE ELSE loan.PaidCount < MaxTickWeek
  /\ clock' = clock + 1
  /\ UNCHANGED <<loan, err, ret, op, calls, totalPaid, reads>>
  /\ args' = NoArgs
  /\ UNCHANGED hvars

Next ==
  \/ CreateLoan
  \/ \E amount \in Amounts : MakePayment(amount)
  \/ GetOutstanding
  \/ WeekIndexAt
  \/ IsDelinquent
  \/ Tick

Spec == Init /\ [][Next]_vars

\* The same operations called at one instant now, any of the query instants
\* (the now parameter of the delinquency request, or a clock that stands
\* still during the calls).
InitQ ==
  /\ loan = NilLoan
  /\ err = NoValue
  /\ ret = NoResult
  /\ op = NoValue
  /\ args = NoArgs
  /\ clock \in QueryNows
  /\ calls = 0
  /\ totalPaid = 0
  /\ reads = 0
  /\ NoRequests

NextQ ==
  \/ CreateLoan
  \/ \E amount \in Amounts : MakePayment(amount)
  \/ GetOutstanding
  \/ WeekIndexAt
  \/ IsDelinquent

SpecQ == InitQ /\ [][NextQ]_vars

\* The unit test of GetOutstanding writes the schedule directly: it clears
\* every Paid flag, then sets the Paid flag and PaidAt of the weeks it
\* lists, and leaves PaidCount and Outstanding as they were.
ResetSchedule ==
  /\ loan # NilLoan
  /\ loan' = [loan EXCEPT !.Schedule =
                [i \in DOMAIN loan.Schedule |->
                   [loan.Schedule[i] EXCEPT !.Paid = FALSE, !.PaidAt = NilTime]]]
  /\ err' = NoValue
  /\ ret' = NoResult
  /\ op' = "ResetSchedule"
  /\ reads' = 0
  /\ UNCHANGED <<clock, calls, totalPaid>>
  /\ args' = NoArgs
  /\ UNCHANGED hvars

MarkPaid(weekIndex) ==
  /\ loan # NilLoan
  /\ loan' = [loan EXCEPT !.Schedule[weekIndex].Paid = TRUE,
                          !.Schedule[weekIndex].PaidAt = <<clock>>]
  /\ err' = NoValue
  /\ ret' = NoResult
  /\ op' = "MarkPaid"
  /\ reads' = 0
  /\ UNCHANGED <<clock, calls, totalPaid>>
  /\ args' = NoArgs
  /\ UNCHANGED hvars

NextT ==
  \/ CreateLoan
  \/ ResetSchedule
  \/ \E weekIndex \in MarkWeeks : MarkPaid(weekIndex)
  \/ GetOutstanding

SpecT == Init /\ [][NextT]_vars

\* ---- the calls of LoanService -------------------------------------------

\* loan, err := service.CreateLoan("L1", CreateLoanRequest{...}); the caller
\* keeps the first loan it is given.
LoanService_CreateLoan(principal, aprPct, startDate) ==
  /\ loan = NilLoan
  /\ LET r == CreateLoanResult("L1", principal, aprPct, startDate) IN
       /\ loan' = r.loan
       /\ err' = r.err
  /\ ret' = NoResult
  /\ op' = "CreateLoan"
  /\ calls' = 0
  /\ totalPaid' = 0
  /\ reads' = 0
  /\ UNCHANGED clock
  /\ args' = NoArgs
  /\ UNCHANGED hvars

\* resp, err := service.CreateLoanFromRequest(principal, annualRate, startDateStr),
\* called for the requests that come in before the caller has its loan.
CreateLoanFromRequest(principal, aprPct, startDateStr) ==
  /\ loan = NilLoan
  /\ LET r == CreateLoanFromRequestResult(principal, aprPct, startDateStr) IN
       /\ ret' = r.ret
       /\ err' = r.err
  /\ op' = "CreateLoanFromRequest"
  /\ args' = <<principal, aprPct, startDateStr>>
  /\ UNCHANGED <<loan, clock, calls, totalPaid, reads>>
  /\ UNCHANGED hvars

\* err := service.ProcessPayment(loan, PaymentRequest{amount, now})
ProcessPayment(amount) ==
  /\ loan # NilLoan
  /\ LET r == ProcessPaymentResult(loan, amount, clock) IN
       /\ loan' = r.loan
       /\ err' = r.err
       /\ totalPaid' = IF r.err = Nil THEN totalPaid + amount ELSE totalPaid
  /\ calls' = IF amount = loan.WeeklyDue /\ calls <= NumWeeks
              THEN calls + 1 ELSE calls
  /\ ret' = NoResult
  /\ op' = "ProcessPayment"
  /\ reads' = 0
  /\ UNCHANGED clock
  /\ args' = NoArgs
  /\ UNCHANGED hvars

\* resp, err := service.ProcessPaymentFromRequest(loan, amount, now)
ProcessPaymentFromRequest(amount) ==
  /\ loan # NilLoan
  /\ LET r == ProcessPaymentFromRequestResult(loan, amount, clock) IN
       /\ loan' = r.loan
       /\ ret' = r.ret
       /\ err' = r.err
       /\ totalPaid' = IF r.err = Nil THEN totalPaid + amount ELSE totalPaid
  /\ calls' = IF amount = loan.WeeklyDue /\ calls <= NumWeeks
              THEN calls + 1 ELSE calls
  /\ op' = "ProcessPaymentFromRequest"
  /\ reads' = 0
  /\ UNCHANGED clock
  /\ args' = NoArgs
  /\ UNCHANGED hvars

NextS ==
  \/ \E principal \in ServicePrincipals, aprPct \in ServiceAprPcts,
        startDate \in StartDates :
       LoanService_CreateLoan(principal, aprPct, startDate)
  \/ \E principal \in ServicePrincipals, aprPct \in ServiceAprPcts,
        startDateStr \in StartDateStrs :
       CreateLoanFromRequest(principal, aprPct, startDateStr)
  \/ \E amount \in ServiceAmounts : ProcessPayment(amount)
  \/ \E amount \in ServiceAmounts : ProcessPaymentFromRequest(amount)

SpecS == Init /\ [][NextS]_vars

\* ---- the handlers -------------------------------------------------------

\* The requests received so far: answered or in progress.
Received == Len(resp) + Cardinality({p \in Procs : pc[p] # "idle"})

\* POST /loans, the first request of a run: the handler parses the start
\* date, puts 0.10 for a rate of 0, validates, creates the loan and stores
\* it with repo.Create.
createLoanHandler(principal, aprPct, startDateStr) ==
  /\ resp = <<>>
  /\ \A p \in Procs : pc[p] = "idle"
  /\ store = NilLoan
  /\ LET parsed == ParseStartDate(startDateStr)
         annualRate == IF aprPct = 0 THEN DefaultAprPct ELSE aprPct IN
     IF parsed = <<>>
     THEN /\ resp' = Append(resp, Response("create", StatusBadRequest,
                                           CodeInvalidStartDateFormat, 0, 0))
          /\ UNCHANGED store
     ELSE IF ValidateCreateLoanRequest(principal, annualRate) # Nil
     THEN /\ resp' = Append(resp, Response("create", StatusBadRequest,
                                           mapValidationError(principal, annualRate),
                                           0, 0))
          /\ UNCHANGED store
     ELSE LET r == CreateLoanResult("L1", principal, annualRate, parsed[1]) IN
          IF r.err # Nil
          THEN /\ resp' = Append(resp, Response("create", StatusBadRequest,
                                                CodeNonIntegralWeeklyPayment, 0, 0))
               /\ UNCHANGED store
          ELSE /\ store' = CreateResult(store, r.loan).store
               /\ resp' = Append(resp, Response("create", StatusCreated, Nil, 0, 0))
  /\ UNCHANGED <<pc, local>>
  /\ UNCHANGED lvars

\* POST /loans/L1/pay, repo.GetByID, first query: no row gives 404.
payLoanHandler_GetByIDLoan(p, amount) ==
  /\ pc[p] = "idle"
  /\ resp # <<>>
  /\ Received < MaxRequests
  /\ IF store = NilLoan
     THEN /\ resp' = Append(resp, Response("pay", StatusNotFound,
                                           CodeLoanNotFound, 0, 0))
          /\ UNCHANGED <<pc, local>>
     ELSE /\ local' = [local EXCEPT ![p] =
                         [amount |-> amount, loan |-> GetByIDLoan(store),
                          firstUnpaidWeek |-> 0]]
          /\ pc' = [pc EXCEPT ![p] = "schedule"]
          /\ UNCHANGED resp
  /\ UNCHANGED store
  /\ UNCHANGED lvars

\* repo.GetByID, second query.
payLoanHandler_GetByIDSchedule(p) ==
  /\ pc[p] = "schedule"
  /\ local' = [local EXCEPT ![p].loan = GetByIDSchedule(local[p].loan, store)]
  /\ pc' = [pc EXCEPT ![p] = "process"]
  /\ UNCHANGED <<store, resp>>
  /\ UNCHANGED lvars

\* Mutant: repo.Update is called with the handler's copy before the error of
\* ProcessPayment is looked at.
payLoanHandler_ProcessPayment_UpdateFirst(p) ==
  /\ pc[p] = "process"
  /\ LET i == FirstUnpaidIndex(local[p].loan.Schedule)
         firstUnpaidWeek == IF i = 0 - 1 THEN 0 ELSE i + 1
         r == ProcessPaymentResult(local[p].loan, local[p].amount, clock) IN
     IF r.err # Nil
     THEN /\ resp' = Append(resp, Response("pay", StatusBadRequest,
                                           PayErrorCode(r.err), 0, 0))
          /\ local' = [local EXCEPT ![p] = NoLocal]
          /\ pc' = [pc EXCEPT ![p] = "idle"]
          /\ store' = UpdateResult(store, r.loan)
     ELSE /\ local' = [local EXCEPT ![p].loan = r.loan,
                                    ![p].firstUnpaidWeek = firstUnpaidWeek]
          /\ pc' = [pc EXCEPT ![p] = "update"]
          /\ UNCHANGED <<resp, store>>
  /\ UNCHANGED lvars

\* The handler notes the first unpaid week and calls service.ProcessPayment
\* on its copy of the loan; an error is answered with 400.
payLoanHandler_ProcessPayment(p) ==
  /\ pc[p] = "process"
  /\ LET i == FirstUnpaidIndex(local[p].loan.Schedule)
         firstUnpaidWeek == IF i = 0 - 1 THEN 0 ELSE i + 1
         r == ProcessPaymentResult(local[p].loan, local[p].amount, clock) IN
     IF r.err # Nil
     THEN /\ resp' = Append(resp, Response("pay", StatusBadRequest,
                                           PayErrorCode(r.err), 0, 0))
          /\ local' = [local EXCEPT ![p] = NoLocal]
          /\ pc' = [pc EXCEPT ![p] = "idle"]
     ELSE /\ local' = [local EXCEPT ![p].loan = r.loan,
                                    ![p].firstUnpaidWeek = firstUnpaidWeek]
          /\ pc' = [pc EXCEPT ![p] = "update"]
          /\ UNCHANGED resp
  /\ UNCHANGED store
  /\ UNCHANGED lvars

\* repo.Update(loan) with the handler's copy, then the response with the
\* week paid and the outstanding recomputed on the copy.
payLoanHandler_Update(p) ==
  /\ pc[p] = "update"
  /\ store' = UpdateResult(store, local[p].loan)
  /\ resp' = Append(resp, Response("pay", StatusOK, Nil, local[p].firstUnpaidWeek,
                                   GetOutstandingResult(local[p].loan).ret[1]))
  /\ local' = [local EXCEPT ![p] = NoLocal]
  /\ pc' = [pc EXCEPT ![p] = "idle"]
  /\ UNCHANGED lvars

NextH ==
  \/ \E principal \in ServicePrincipals, aprPct \in ServiceAprPcts,
        startDateStr \in StartDateStrs :
       createLoanHandler(principal, aprPct, startDateStr)
  \/ \E p \in Procs, amount \in HandlerAmounts : payLoanHandler_GetByIDLoan(p, amount)
  \/ \E p \in Procs : payLoanHandler_GetByIDSchedule(p)
  \/ \E p \in Procs : payLoanHandler_ProcessPayment(p)
  \/ \E p \in Procs : payLoanHandler_Update(p)

SpecH == Init /\ [][NextH]_vars

\* The numbers of pay requests served one after the other before the
\* requests of a run: all but the last installment, and all of them.
PaidBefore == {NumWeeks - 1, NumWeeks}

\* The stored loan after n pay requests with the weekly due, served one
\* after the other: each loads the loan, pays its copy and stores it.
RECURSIVE StoredAfter(_, _)
StoredAfter(st, n) ==
  IF n = 0 THEN st
  ELSE LET prev == StoredAfter(st, n - 1)
           copy == GetByIDResult(prev).ret[1] IN
       UpdateResult(prev, ProcessPaymentResult(copy, copy.WeeklyDue, 0).loan)

\* A run of the handlers starts with nothing stored, or after the loan of
\* 5,000,000 at 0.10 was created and 49 or 50 of its installments were paid
\* by requests served one after the other.
InitP ==
  /\ loan = NilLoan
  /\ err = NoValue
  /\ ret = NoResult
  /\ op = NoValue
  /\ args = NoArgs
  /\ clock = 0
  /\ calls = 0
  /\ totalPaid = 0
  /\ reads = 0
  /\ \/ NoRequests
     \/ /\ \E n \in PaidBefore :
              store = StoredAfter(
                        CreateResult(NilLoan,
                                     CreateLoanResult("L1", MaxAllowedPrincipal,
                                                      DefaultAprPct,
                                                      ParseStartDate("2025-08-15")[1]).loan).store,
                        n)
        /\ pc = [p \in Procs |-> "idle"]
        /\ local = [p \in Procs |-> NoLocal]
        /\ resp = <<Response("create", StatusCreated, Nil, 0, 0)>>

SpecP == InitP /\ [][NextH]_vars

\* ---- the repository on its own ------------------------------------------

\* err := repo.Create(loan), called once, with the loan NewLoan returned.
Create ==
  /\ loan # NilLoan
  /\ op = "NewLoan"
  /\ LET r == CreateResult(store, loan) IN
       /\ store' = r.store
       /\ err' = r.err
  /\ ret' = NoResult
  /\ op' = "Create"
  /\ UNCHANGED <<loan, clock, calls, totalPaid, reads>>
  /\ args' = NoArgs
  /\ UNCHANGED <<pc, local, resp>>

\* retrieved, err := repo.GetByID("L1")
GetByID ==
  /\ LET r == GetByIDResult(store) IN
       /\ ret' = r.ret
       /\ err' = r.err
  /\ op' = "GetByID"
  /\ UNCHANGED <<loan, clock, calls, totalPaid, reads>>
  /\ args' = NoArgs
  /\ UNCHANGED hvars

\* err := repo.Update(loan)
Update ==
  /\ loan # NilLoan
  /\ store' = UpdateResult(store, loan)
  /\ err' = Nil
  /\ ret' = NoResult
  /\ op' = "Update"
  /\ UNCHANGED <<loan, clock, calls, totalPaid, reads>>
  /\ args' = NoArgs
  /\ UNCHANGED <<pc, local, resp>>

\* err := repo.Delete("L1")
Delete ==
  /\ store' = DeleteResult(store)
  /\ err' = Nil
  /\ ret' = NoResult
  /\ op' = "Delete"
  /\ UNCHANGED <<loan, clock, calls, totalPaid, reads>>
  /\ args' = NoArgs
  /\ UNCHANGED <<pc, local, resp>>

\* The repository tests: a loan is made with NewLoan and stored, paid in
\* memory, stored again, read back and deleted.
NextR ==
  \/ CreateLoan
  \/ Create
  \/ \E amount \in Amounts :
       /\ loan # NilLoan
       /\ loan.PaidCount < MaxStoredPayments
       /\ MakePayment(amount)
  \/ Update
  \/ GetByID
  \/ Delete

SpecR == Init /\ [][NextR]_vars

\* ---- vocabulary of the properties --------------------------------------

HasLoan == loan # NilLoan

WeekIdx == 0..(NumWeeks - 1)

\* The array indices of the weeks of l whose Paid flag is set.
PaidSet(l) == {i \in WeekIdx : l.Schedule[i].Paid}

\* Sum of Amount over the weeks of l with array index in S.
RECURSIVE AmountOver(_, _)
AmountOver(l, S) ==
  IF S = {} THEN 0
  ELSE LET i == CHOOSE x \in S : TRUE IN
       l.Schedule[i].Amount + AmountOver(l, S \ {i})

\* ---- C1 -----------------------------------------------------------------
\* C1: in every reachable state the paid installments are exactly the
\* installments 1..PaidCount: no installment is paid while an installment
\* with a smaller index is unpaid.
C1_PaidIsPrefix ==
  HasLoan =>
    /\ \A k \in WeekIdx : loan.Schedule[k].Paid =>
         \A j \in 0..(k - 1) : loan.Schedule[j].Paid
    /\ PaidSet(loan) = 0..(loan.PaidCount - 1)

\* A wrong amount was refused after two weeks had been paid.
C1_Witness ==
  /\ HasLoan
  /\ loan.PaidCount = 2
  /\ op = "MakePayment"
  /\ err = ErrWrongAmount

\* ---- C2 -----------------------------------------------------------------
\* C2: conservation: after NewLoan and after every MakePayment and
\* GetOutstanding call, Outstanding + PaidCount * WeeklyDue equals the total
\* due fixed at creation, which is 50 * WeeklyDue.
C2_Conservation ==
  HasLoan =>
    /\ loan.Outstanding + loan.PaidCount * loan.WeeklyDue
         = NumWeeks * loan.WeeklyDue
    /\ NumWeeks * loan.WeeklyDue = TotalDue(loan.Principal, loan.APR)

\* The balance was recomputed in the middle of the term, at a weekly due
\* other than 1.
C2_Witness ==
  /\ HasLoan
  /\ op = "GetOutstanding"
  /\ loan.PaidCount = 7
  /\ loan.WeeklyDue = 2

\* ---- C3 -----------------------------------------------------------------
\* C3: the cached PaidCount equals the number of installments whose Paid
\* flag is true.
C3_PaidCountIsCount ==
  HasLoan => loan.PaidCount = Cardinality(PaidSet(loan))

\* Three payments were accepted.
C3_Witness ==
  /\ HasLoan
  /\ op = "MakePayment"
  /\ err = Nil
  /\ Cardinality(PaidSet(loan)) = 3

\* ---- C4 -----------------------------------------------------------------
\* C4: the cached Outstanding equals the sum of Amount over the installments
\* whose Paid flag is false, after a payment (which decrements it) as well
\* as after GetOutstanding (which recomputes it).
C4_OutstandingIsUnpaidSum ==
  HasLoan =>
    /\ loan.Outstanding = AmountOver(loan, WeekIdx \ PaidSet(loan))
    /\ op = "GetOutstanding" => ret = <<loan.Outstanding>>

\* A payment has just decremented the cache of a loan with weekly due 2.
C4_Witness ==
  /\ HasLoan
  /\ op = "MakePayment"
  /\ err = Nil
  /\ loan.WeeklyDue = 2
  /\ loan.Outstanding = 2 * (NumWeeks - 5)

\* ---- C5 -----------------------------------------------------------------
\* C5: monotonicity: no step decreases PaidCount and no step clears the Paid
\* flag of an installment.
C5_Monotonic ==
  [][(HasLoan /\ loan' # NilLoan) =>
       /\ loan'.PaidCount >= loan.PaidCount
       /\ \A i \in WeekIdx : loan.Schedule[i].Paid => loan'.Schedule[i].Paid]_vars

\* A payment was accepted on a loan that already had paid installments, and
\* a later call was refused.
C5_Witness ==
  /\ HasLoan
  /\ loan.PaidCount = 4
  /\ op = "MakePayment"
  /\ err = ErrWrongAmount
  /\ clock = 1
\* ---- C6 -----------------------------------------------------------------
\* The array index of the first unpaid week of l (l has one).
FirstUnpaid(l) ==
  CHOOSE k \in WeekIdx \ PaidSet(l) : \A j \in WeekIdx \ PaidSet(l) : k <= j

\* C6: a successful MakePayment sets Paid and PaidAt = now on the first
\* unpaid installment, adds exactly 1 to PaidCount and takes exactly the
\* amount off Outstanding; every other installment and every other field of
\* the loan is left as it was.
C6_PaymentEffect ==
  [][(op' = "MakePayment" /\ err' = Nil) =>
       LET k == FirstUnpaid(loan) IN
       \A amount \in Amounts : MakePayment(amount) =>
         /\ loan'.Schedule[k] = [Index |-> loan.Schedule[k].Index,
                                 Amount |-> loan.Schedule[k].Amount,
                                 Paid |-> TRUE,
                                 PaidAt |-> <<clock>>]
         /\ \A i \in WeekIdx \ {k} : loan'.Schedule[i] = loan.Schedule[i]
         /\ loan'.PaidCount = loan.PaidCount + 1
         /\ loan'.Outstanding = loan.Outstanding - amount
         /\ loan'.ID = loan.ID
         /\ loan'.Principal = loan.Principal
         /\ loan'.APR = loan.APR
         /\ loan'.StartDate = loan.StartDate
         /\ loan'.WeeklyDue = loan.WeeklyDue
         /\ DOMAIN loan' = DOMAIN loan]_vars

\* The second installment was paid at hour 1, the first one at hour 0.
C6_Witness ==
  /\ HasLoan
  /\ op = "MakePayment"
  /\ err = Nil
  /\ loan.PaidCount = 2
  /\ loan.Schedule[0].PaidAt = <<0>>
  /\ loan.Schedule[1].PaidAt = <<1>>

\* ---- C7 -----------------------------------------------------------------
\* C7: a payment whose amount differs from the amount of the first unpaid
\* installment (smaller or larger) fails with the wrong-amount error and
\* leaves the loan as it was; the next payment with the right amount pays
\* that same installment.
C7_WrongAmount ==
  [][(op' = "MakePayment" /\ \E i \in WeekIdx : ~loan.Schedule[i].Paid) =>
       LET k == FirstUnpaid(loan) IN
       \A amount \in Amounts : MakePayment(amount) =>
         /\ amount # loan.Schedule[k].Amount =>
              /\ err' = ErrWrongAmount
              /\ loan' = loan
         /\ (err = ErrWrongAmount /\ amount = loan.Schedule[k].Amount) =>
              /\ err' = Nil
              /\ loan'.Schedule[k].Paid
              /\ PaidSet(loan') = PaidSet(loan) \cup {k}]_vars

\* After a refused payment the right amount paid the second installment.
C7_Witness ==
  /\ HasLoan
  /\ op = "MakePayment"
  /\ err = ErrWrongAmount
  /\ loan.PaidCount = 1
  /\ loan.WeeklyDue = 2

\* ---- C8 -----------------------------------------------------------------
\* C8: when all 50 installments are paid, MakePayment fails with the
\* already-paid error for every amount, the weekly due or not, and leaves
\* the loan as it was.
C8_AlreadyPaid ==
  [][(op' = "MakePayment" /\ loan.Schedule[NumWeeks - 1].Paid
        /\ PaidSet(loan) = WeekIdx) =>
       \A amount \in Amounts : MakePayment(amount) =>
         /\ err' = ErrAlreadyPaid
         /\ loan' = loan
         /\ totalPaid' = totalPaid]_vars

\* A payment was refused on a fully paid loan.
C8_Witness ==
  /\ HasLoan
  /\ PaidSet(loan) = WeekIdx
  /\ op = "MakePayment"
  /\ err = ErrAlreadyPaid

\* ---- C9 -----------------------------------------------------------------
\* C9: full-payoff law: of the MakePayment calls made with the weekly due on
\* a new loan the first 50 all succeed; after them GetOutstanding returns 0
\* and the amounts paid add up to the total due; the 51st call fails with
\* the already-paid error.
C9_FullPayoff ==
  HasLoan =>
    /\ calls <= NumWeeks =>
         /\ loan.PaidCount = calls
         /\ totalPaid = calls * loan.WeeklyDue
    /\ calls < NumWeeks => err # ErrAlreadyPaid
    /\ calls >= NumWeeks =>
         /\ totalPaid = TotalDue(loan.Principal, loan.APR)
         /\ PaidSet(loan) = WeekIdx
         /\ op = "GetOutstanding" => ret = <<0>>
    /\ (calls = NumWeeks + 1 /\ op = "MakePayment") => err = ErrAlreadyPaid

\* The 51st payment of the weekly due was refused after 50 were accepted.
C9_Witness ==
  /\ HasLoan
  /\ calls = NumWeeks + 1
  /\ err = ErrAlreadyPaid
  /\ totalPaid = NumWeeks * loan.WeeklyDue
  /\ loan.Outstanding = 0

\* ---- C10 ----------------------------------------------------------------
\* The integer nearest to num / den (num >= 0, den > 0), a half going up.
Nearest(num, den) ==
  CHOOSE n \in 0..(num \div den + 1) :
    (2 * n - 1) * den <= 2 * num /\ 2 * num < (2 * n + 1) * den

\* C10: divisibility precondition: for principal > 0 and rate >= 0 NewLoan
\* returns a loan exactly when round(principal * (1 + rate)) is divisible by
\* 50, and then WeeklyDue * 50 is that total; otherwise it returns no loan
\* and the unsupported-product error.
C10_Divisibility ==
  [][op' = "NewLoan" =>
       \A principal \in Principals, aprPct \in AprPcts, startDate \in StartDates :
         (principal > 0 /\ aprPct >= 0 /\ NewLoan(principal, aprPct, startDate)) =>
           LET totalDue == Nearest(principal * (100 + aprPct), 100) IN
           IF totalDue % 50 = 0
           THEN /\ loan' # NilLoan
                /\ err' = Nil
                /\ loan'.WeeklyDue * 50 = totalDue
                /\ loan'.Outstanding = totalDue
           ELSE /\ loan' = NilLoan
                /\ err' = ErrUnsupportedProduct]_vars

\* A loan was created whose total had to be rounded to be divisible by 50.
C10_Witness ==
  /\ HasLoan
  /\ op = "NewLoan"
  /\ (loan.Principal * (100 + loan.APR)) % 100 # 0
  /\ loan.WeeklyDue * 50 # (loan.Principal * (100 + loan.APR)) \div 100

\* ---- C11 ----------------------------------------------------------------
\* C11: NewLoan with principal <= 0 or rate < 0 returns the invalid-request
\* error and no loan, also when the total would be divisible by 50: it never
\* returns the unsupported-product error for such an input.
C11_InvalidRequest ==
  [][op' = "NewLoan" =>
       \A principal \in Principals, aprPct \in AprPcts, startDate \in StartDates :
         ((principal <= 0 \/ aprPct < 0) /\ NewLoan(principal, aprPct, startDate)) =>
           /\ err' = ErrInvalidRequest
           /\ loan' = NilLoan]_vars

\* NewLoan refused an input as invalid.
C11_Witness ==
  /\ op = "NewLoan"
  /\ err = ErrInvalidRequest
  /\ loan = NilLoan
  /\ clock = 0

\* ---- C12 ----------------------------------------------------------------
\* C12: the loan returned by a successful NewLoan has exactly 50
\* installments with Index 1..50 in order, each with Amount = WeeklyDue,
\* Paid = false and no PaidAt, and has PaidCount = 0 and Outstanding = the
\* total due.
C12_NewLoanShape ==
  (op = "NewLoan" /\ HasLoan) =>
    /\ DOMAIN loan.Schedule = WeekIdx
    /\ Cardinality(DOMAIN loan.Schedule) = 50
    /\ \A i \in WeekIdx :
         loan.Schedule[i] = [Index |-> i + 1, Amount |-> loan.WeeklyDue,
                             Paid |-> FALSE, PaidAt |-> NilTime]
    /\ loan.PaidCount = 0
    /\ loan.Outstanding = Nearest(loan.Principal * (100 + loan.APR), 100)
    /\ loan.Outstanding = 50 * loan.WeeklyDue

\* NewLoan has just returned a loan with weekly due 2.
C12_Witness ==
  /\ op = "NewLoan"
  /\ HasLoan
  /\ err = Nil
  /\ loan.WeeklyDue = 2
  /\ clock = 0

\* ---- C13 ----------------------------------------------------------------
\* C13: after any sequence of operations the schedule has exactly 50
\* installments, every installment amount equals WeeklyDue, and the amounts
\* add up to the total due round(principal * (1 + rate)).
C13_ScheduleTotal ==
  HasLoan =>
    /\ Cardinality(DOMAIN loan.Schedule) = 50
    /\ \A i \in DOMAIN loan.Schedule : loan.Schedule[i].Amount = loan.WeeklyDue
    /\ AmountOver(loan, DOMAIN loan.Schedule)
         = Nearest(loan.Principal * (100 + loan.APR), 100)

\* Ten installments are paid and a query has run.
C13_Witness ==
  /\ HasLoan
  /\ loan.PaidCount = 10
  /\ op = "WeekIndexAt"

\* ---- C14 ----------------------------------------------------------------
\* C14: no operation on an existing loan changes its ID, Principal, APR,
\* StartDate or WeeklyDue, or the Index or Amount of an installment.
C14_FixedFields ==
  [][(HasLoan /\ loan' # NilLoan) =>
       /\ loan'.ID = loan.ID
       /\ loan'.Principal = loan.Principal
       /\ loan'.APR = loan.APR
       /\ loan'.StartDate = loan.StartDate
       /\ loan'.WeeklyDue = loan.WeeklyDue
       /\ \A i \in WeekIdx :
            /\ loan'.Schedule[i].Index = loan.Schedule[i].Index
            /\ loan'.Schedule[i].Amount = loan.Schedule[i].Amount]_vars

\* IsDelinquent has run on a loan with three paid installments.
C14_Witness ==
  /\ HasLoan
  /\ loan.PaidCount = 3
  /\ op = "IsDelinquent"

\* ---- C15 ----------------------------------------------------------------
HoursPerWeek == HoursPerDay * DaysPerWeek

\* The week of the instant now as the claims state it: 1 before the start
\* date, otherwise the week w with w - 1 whole weeks elapsed, 50 at most.
ObservedWeek(l, now) ==
  IF now < l.StartDate THEN 1
  ELSE LET e == now - l.StartDate IN
       CHOOSE w \in 1..50 :
         /\ HoursPerWeek * (w - 1) <= e
         /\ w < 50 => e < HoursPerWeek * w

\* C15: WeekIndexAt returns 1 for now before the start date, otherwise
\* floor(d / 7) + 1 for d whole 24-hour days elapsed, capped at 50: the
\* result is in 1..50, days 0-6 give 1, days 7-13 give 2, days 14-20 give 3.
C15_WeekIndex ==
  (op = "WeekIndexAt" /\ HasLoan) =>
    LET e == clock - loan.StartDate
        w == ret[1] IN
    /\ ret = <<ObservedWeek(loan, clock)>>
    /\ w \in 1..50
    /\ e < 0 => w = 1
    /\ (0 <= e /\ e < 7 * 24) => w = 1
    /\ (7 * 24 <= e /\ e < 14 * 24) => w = 2
    /\ (14 * 24 <= e /\ e < 21 * 24) => w = 3
    /\ e >= 50 * 7 * 24 => w = 50

\* WeekIndexAt was asked 350 days after the start date and answered 50.
C15_Witness ==
  /\ op = "WeekIndexAt"
  /\ HasLoan
  /\ clock - loan.StartDate = 350 * 24
  /\ ret = <<50>>

\* ---- C16 ----------------------------------------------------------------
\* Installment number n (1-based) of loan l is paid.
InstallmentPaid(l, n) == l.Schedule[n - 1].Paid

\* C16: for an observed week w >= 3, IsDelinquent answers true exactly when
\* installments w - 2 and w - 1 (1-based) are both unpaid; installment w and
\* the installments before w - 2 do not matter, so a loan with installments
\* 1..w-2 paid and installment w - 1 unpaid is not delinquent.
C16_TwoCompletedWeeks ==
  (op = "IsDelinquent" /\ HasLoan) =>
    LET w == ObservedWeek(loan, clock) IN
    w >= 3 =>
      ret[1] = (~InstallmentPaid(loan, w - 2) /\ ~InstallmentPaid(loan, w - 1))

\* ---- C17 ----------------------------------------------------------------
\* C17: with no payments IsDelinquent returns (false, 0, 1) 6 days after the
\* start date, (false, 0, 2) 13 days after and (true, 2, 3) 14 days after;
\* for an observed week w < 3 it returns (false, 0, w) whatever is paid.
C17_Boundary ==
  (op = "IsDelinquent" /\ HasLoan) =>
    LET e == clock - loan.StartDate
        w == ObservedWeek(loan, clock) IN
    /\ w < 3 => ret = <<FALSE, 0, w>>
    /\ (PaidSet(loan) = {} /\ e \div 24 = 6) => ret = <<FALSE, 0, 1>>
    /\ (PaidSet(loan) = {} /\ e \div 24 = 13) => ret = <<FALSE, 0, 2>>
    /\ (PaidSet(loan) = {} /\ e \div 24 = 14) => ret = <<TRUE, 2, 3>>

\* IsDelinquent answered (true, 2, 3) exactly 14 days after the start date
\* of a loan with no payments.
C17_Witness ==
  /\ op = "IsDelinquent"
  /\ HasLoan
  /\ PaidSet(loan) = {}
  /\ clock - loan.StartDate = 14 * 24
  /\ ret = <<TRUE, 2, 3>>

\* ---- C18 ----------------------------------------------------------------
\* C18: when now is before the start date the observed week is 1 and the
\* loan is not delinquent, with streak 0.
C18_BeforeStart ==
  /\ (op = "IsDelinquent" /\ HasLoan /\ clock < loan.StartDate) =>
       ret = <<FALSE, 0, 1>>
  /\ (op = "WeekIndexAt" /\ HasLoan /\ clock < loan.StartDate) =>
       ret = <<1>>

\* IsDelinquent was asked at an instant before the start date.
C18_Witness ==
  /\ op = "IsDelinquent"
  /\ HasLoan
  /\ clock < loan.StartDate
  /\ ret = <<FALSE, 0, 1>>

\* ---- C19 ----------------------------------------------------------------
\* C19: the streak returned by IsDelinquent is 0 or 2, and it is 2 exactly
\* when the loan is reported delinquent.
C19_Streak ==
  (op = "IsDelinquent" /\ HasLoan) =>
    /\ ret[2] \in {0, 2}
    /\ (ret[2] = 2) <=> (ret[1] = TRUE)

\* IsDelinquent reported a loan with two paid installments delinquent with
\* streak 2, and did so in week 4.
C19_Witness ==
  /\ op = "IsDelinquent"
  /\ HasLoan
  /\ loan.PaidCount = 2
  /\ ret = <<TRUE, 2, 4>>

\* ---- C20 ----------------------------------------------------------------
\* C20: a loan observed in week 3 with no payments is delinquent, and after
\* two successful payments it is not delinquent at that same instant; a loan
\* observed in week w >= 3 with installments 1..w-1 all paid is not
\* delinquent.
C20_CatchUp ==
  (op = "IsDelinquent" /\ HasLoan) =>
    LET w == ObservedWeek(loan, clock) IN
    /\ (w = 3 /\ loan.PaidCount = 0) => ret = <<TRUE, 2, 3>>
    /\ (w = 3 /\ calls = 2 /\ totalPaid = 2 * loan.WeeklyDue) =>
         ret = <<FALSE, 0, 3>>
    /\ (w >= 3 /\ \A n \in 1..(w - 1) : InstallmentPaid(loan, n)) =>
         ret = <<FALSE, 0, w>>

\* IsDelinquent answered not delinquent in week 3 after exactly two
\* successful payments.
C20_Witness ==
  /\ op = "IsDelinquent"
  /\ HasLoan
  /\ ObservedWeek(loan, clock) = 3
  /\ calls = 2
  /\ loan.PaidCount = 2
  /\ ret = <<FALSE, 0, 3>>

\* ---- C21 ----------------------------------------------------------------
\* C21: two consecutive GetOutstanding calls with no payment in between
\* return the same value, and the loan after the second call is the loan
\* after the first.
C21_Idempotent ==
  [][(op = "GetOutstanding" /\ op' = "GetOutstanding" /\ reads >= 1) =>
       /\ ret' = ret
       /\ loan' = loan]_vars

\* GetOutstanding has been called twice in a row on a loan with one paid
\* installment.
C21_Witness ==
  /\ HasLoan
  /\ op = "GetOutstanding"
  /\ reads = 2
  /\ loan.PaidCount = 1
  /\ ret = <<loan.Outstanding>>

\* ---- C22 ----------------------------------------------------------------
\* C22: GetOutstanding returns the sum of Amount over the unpaid
\* installments whatever the cached Outstanding field held before the call,
\* sets the cached field to the value returned and changes nothing else.
C22_Recompute ==
  [][(op' = "GetOutstanding" /\ HasLoan /\ GetOutstanding) =>
       LET sum == AmountOver(loan, WeekIdx \ PaidSet(loan)) IN
       /\ ret' = <<sum>>
       /\ loan' = [loan EXCEPT !.Outstanding = sum]
       /\ loan'.Schedule = loan.Schedule
       /\ loan'.PaidCount = loan.PaidCount]_vars

\* GetOutstanding has run on a loan whose second week was marked paid by
\* hand, so that the cached field held the full total before the call.
C22_Witness ==
  /\ HasLoan
  /\ op = "GetOutstanding"
  /\ PaidSet(loan) = {1}
  /\ loan.PaidCount = 0
  /\ loan.Outstanding = 49 * loan.WeeklyDue
  /\ ret = <<loan.Outstanding>>

\* ---- C25 ----------------------------------------------------------------
\* C25: in every state reached through NewLoan and MakePayment an
\* installment has a PaidAt timestamp exactly when it is paid; the payment
\* that pays an installment sets its PaidAt to that payment's now, and no
\* later operation changes or clears a PaidAt.
C25_PaidAt ==
  /\ [](HasLoan => \A i \in WeekIdx :
                     loan.Schedule[i].Paid <=> loan.Schedule[i].PaidAt # NilTime)
  /\ [][(HasLoan /\ loan' # NilLoan) =>
          \A i \in WeekIdx :
            /\ loan.Schedule[i].PaidAt # NilTime =>
                 loan'.Schedule[i].PaidAt = loan.Schedule[i].PaidAt
            /\ (~loan.Schedule[i].Paid /\ loan'.Schedule[i].Paid) =>
                 loan'.Schedule[i].PaidAt = <<clock>>]_vars

\* The first installment was paid at hour 0 and the second at hour 1, and
\* a later query left both timestamps in place.
C25_Witness ==
  /\ HasLoan
  /\ loan.Schedule[0].PaidAt = <<0>>
  /\ loan.Schedule[1].PaidAt = <<1>>
  /\ loan.Schedule[2].PaidAt = NilTime
  /\ op = "GetOutstanding"

\* ---- C28 ----------------------------------------------------------------
\* C28: MakePayment with the amount of the first unpaid installment succeeds
\* and pays that installment at every now, also before the start date and
\* for an installment whose week has not begun; now decides nothing but the
\* PaidAt recorded.
C28_NoTimeGate ==
  [][(op' = "MakePayment" /\ HasLoan /\ PaidSet(loan) # WeekIdx) =>
       LET k == FirstUnpaid(loan) IN
       MakePayment(loan.Schedule[k].Amount) =>
         /\ err' = Nil
         /\ loan'.Schedule[k].Paid
         /\ loan'.PaidCount = loan.PaidCount + 1
         /\ \A amount \in Amounts, now \in {0, loan.StartDate, clock + HoursPerWeek} :
              LET r == MakePaymentResult(loan, amount, clock)
                  q == MakePaymentResult(loan, amount, now) IN
              /\ q.err = r.err
              /\ q.loan.PaidCount = r.loan.PaidCount
              /\ q.loan.Outstanding = r.loan.Outstanding
              /\ \A i \in WeekIdx :
                   /\ q.loan.Schedule[i].Paid = r.loan.Schedule[i].Paid
                   /\ i # k => q.loan.Schedule[i] = r.loan.Schedule[i]]_vars

\* All 50 installments were paid at an instant before the start date.
C28_Witness ==
  /\ HasLoan
  /\ clock < loan.StartDate
  /\ loan.PaidCount = 50
  /\ op = "MakePayment"
  /\ err = Nil

\* ---- C23 ----------------------------------------------------------------
\* C23: a successful payment request reports the 1-based index of the
\* installment this payment marked paid and the outstanding balance after
\* the payment: (1, 5390000) for the first payment of 110000 on a loan of
\* 5,000,000 at 0.10, and (n, totalDue - n * weeklyDue) for the n-th
\* successful payment.
C23_PaymentResponse ==
  [][(op' = "ProcessPaymentFromRequest" /\ err' = Nil) =>
       LET k == FirstUnpaid(loan)
           n == loan.PaidCount + 1 IN
       /\ ~loan.Schedule[k].Paid /\ loan'.Schedule[k].Paid
       /\ ret'[1] = loan.Schedule[k].Index
       /\ ret'[2] = AmountOver(loan', WeekIdx \ PaidSet(loan'))
       /\ ret' = <<n, 50 * loan.WeeklyDue - n * loan.WeeklyDue>>
       /\ (loan.Principal = 5000000 /\ loan.APR = 10 /\ loan.PaidCount = 0) =>
            /\ loan.WeeklyDue = 110000
            /\ loan.Outstanding = 5500000
            /\ ret' = <<1, 5390000>>]_vars

\* The second payment of 110000 on the loan of 5,000,000 at 0.10 has
\* reported week 2.
C23_Witness ==
  /\ HasLoan
  /\ op = "ProcessPaymentFromRequest"
  /\ err = Nil
  /\ loan.Principal = 5000000
  /\ ret = <<2, 5280000>>

\* ---- C26 ----------------------------------------------------------------
\* The errors a refused create request can carry.
CreateValidationErrors ==
  {ErrPrincipalNotPositive, ErrPrincipalTooHigh, ErrRateNegative, ErrRateTooHigh,
   CodeInvalidStartDateFormat, CodeInvalidPrincipal, CodePrincipalTooHigh,
   CodeInvalidAnnualRate, CodeAnnualRateTooHigh}

\* C26: CreateLoan and CreateLoanFromRequest of LoanService refuse every
\* request with principal > 5,000,000 or rate > 0.50 with a validation
\* error and produce no loan; 5,000,001 at 0.10 is reported as above the
\* maximum principal, not as an unsupported product.
C26_Ceilings ==
  [][/\ op' = "CreateLoan" =>
          \A principal \in ServicePrincipals, aprPct \in ServiceAprPcts,
             startDate \in StartDates :
            ((principal > 5000000 \/ aprPct > 50)
               /\ LoanService_CreateLoan(principal, aprPct, startDate)) =>
              /\ loan' = NilLoan
              /\ err' \in CreateValidationErrors
              /\ (principal = 5000001 /\ aprPct = 10) => err' = ErrPrincipalTooHigh
     /\ op' = "CreateLoanFromRequest" =>
          ((args'[1] > 5000000 \/ args'[2] > 50) =>
              /\ ret' = NoResult
              /\ loan' = NilLoan
              /\ err' \in CreateValidationErrors
              /\ (args' = <<5000001, 10, "2025-08-15">>) =>
                   err' = CodePrincipalTooHigh)]_vars

\* The request for 5,000,001 at rate 0.10 was refused as above the maximum
\* principal.
C26_Witness ==
  /\ op = "CreateLoanFromRequest"
  /\ args = <<5000001, 10, "2025-08-15">>
  /\ err = CodePrincipalTooHigh
  /\ ret = NoResult
  /\ loan = NilLoan

\* ---- C27 ----------------------------------------------------------------
\* C27: ProcessPaymentFromRequest refuses a payment on a loan whose 50
\* installments are all paid with the already-fully-paid error, so the 51st
\* payment after 50 successful ones gets that error.
C27_AlreadyPaidByRequest ==
  (/\ HasLoan
   /\ op = "ProcessPaymentFromRequest"
   /\ PaidSet(loan) = WeekIdx
   /\ err # Nil
   /\ err # CodeInvalidPaymentAmount) => err = CodeLoanAlreadyPaid

\* ---- C29 ----------------------------------------------------------------
\* C29: a create request that carries rate 0 creates the loan with rate
\* 0.10: 5,000,000 with no rate gives weekly due 110000 and outstanding
\* 5500000, and the rate of the loan is 0.10.
C29_DefaultRate ==
  (op = "CreateLoanFromRequest" /\ args # NoArgs /\ args[2] = 0 /\ err = Nil) =>
      /\ ret # NoResult
      /\ ret[1].APR = 10
      /\ ret[1].Outstanding = Nearest(ret[1].Principal * 110, 100)
      /\ args[1] = 5000000 =>
           /\ ret[1].WeeklyDue = 110000
           /\ ret[1].Outstanding = 5500000

\* The request for 5,000,000 without a rate was answered with a loan.
C29_Witness ==
  /\ op = "CreateLoanFromRequest"
  /\ args = <<5000000, 0, "2025-08-15">>
  /\ err = Nil
  /\ ret # NoResult

\* ---- C30 ----------------------------------------------------------------
\* C30: ProcessPayment refuses every payment with amount <= 0 with the
\* validation error, in every loan state, and leaves the loan unchanged.
C30_AmountPositive ==
  [][op' = "ProcessPayment" =>
       \A amount \in ServiceAmounts :
         (amount <= 0 /\ ProcessPayment(amount)) =>
           /\ err' = ErrAmountNotPositive
           /\ loan' = loan]_vars

\* A payment that is not positive was refused on a fully paid loan.
C30_Witness ==
  /\ HasLoan
  /\ op = "ProcessPayment"
  /\ err = ErrAmountNotPositive
  /\ loan.PaidCount = 50

\* ---- C24 ----------------------------------------------------------------
\* The positions in resp of the pay requests answered with success.
PaySuccesses ==
  {i \in DOMAIN resp : resp[i].handler = "pay" /\ resp[i].status = StatusOK}

\* C24: under every interleaving of pay requests for one loan id no update
\* is lost: once n pay requests have been answered with success the stored
\* loan has exactly n installments paid, and no two successful responses
\* report the same paid week.
C24_NoLostUpdate ==
  /\ (store # NilLoan /\ \A p \in Procs : pc[p] = "idle") =>
       Cardinality(PaidSet(store)) = Cardinality(PaySuccesses)
  /\ \A i, j \in PaySuccesses : i # j => resp[i].paidWeek # resp[j].paidWeek

\* ---- C33 ----------------------------------------------------------------
\* C33: WeekIndexAt and IsDelinquent are read-only: a call of either, in any
\* loan state and at any instant, leaves the loan (schedule, PaidCount and
\* Outstanding) as it was, so the result of a later MakePayment with any
\* amount and of a later GetOutstanding is the one without the call.
C33_ReadOnly ==
  [][op' \in {"WeekIndexAt", "IsDelinquent"} =>
       /\ loan'.Schedule = loan.Schedule
       /\ loan'.PaidCount = loan.PaidCount
       /\ loan'.Outstanding = loan.Outstanding
       /\ GetOutstandingResult(loan') = GetOutstandingResult(loan)
       /\ \A amount \in Amounts :
            MakePaymentResult(loan', amount, clock') =
              MakePaymentResult(loan, amount, clock)]_vars

\* IsDelinquent answered delinquent on a loan with one installment paid.
C33_Witness ==
  /\ HasLoan
  /\ op = "IsDelinquent"
  /\ ret[1]
  /\ loan.PaidCount = 1
  /\ loan.Outstanding = (NumWeeks - 1) * loan.WeeklyDue

\* ---- C35 ----------------------------------------------------------------
\* C35: every loan has WeeklyDue >= 1; while an installment is unpaid
\* ProcessPayment with the weekly due succeeds and pays exactly one more
\* installment; every successful payment of the service raises PaidCount by
\* exactly one, and the loan is fully paid exactly when PaidCount is 50, so
\* the fully paid state comes after exactly 50 - PaidCount more successes.
C35_DuePositive ==
  /\ [](HasLoan =>
          /\ loan.WeeklyDue >= 1
          /\ (PaidSet(loan) = WeekIdx) <=> (loan.PaidCount = NumWeeks)
          /\ PaidSet(loan) # WeekIdx =>
               LET r == ProcessPaymentResult(loan, loan.WeeklyDue, clock) IN
               /\ r.err = Nil
               /\ r.loan.PaidCount = loan.PaidCount + 1
               /\ PaidSet(r.loan) = PaidSet(loan) \cup {FirstUnpaid(loan)})
  /\ [][(op' \in {"ProcessPayment", "ProcessPaymentFromRequest"} /\ err' = Nil) =>
          /\ loan'.PaidCount = loan.PaidCount + 1
          /\ Cardinality(PaidSet(loan')) = Cardinality(PaidSet(loan)) + 1]_vars

\* The 50th payment of a weekly due of 1 was accepted by ProcessPayment.
C35_Witness ==
  /\ HasLoan
  /\ loan.WeeklyDue = 1
  /\ op = "ProcessPayment"
  /\ err = Nil
  /\ calls = NumWeeks
  /\ PaidSet(loan) = WeekIdx

\* ---- C36 ----------------------------------------------------------------
\* C36: in every state reached through NewLoan and MakePayment PaidCount is
\* in 0..50, Outstanding is in 0..totalDue, and Outstanding is 0 exactly when
\* PaidCount is 50.
C36_Ranges ==
  HasLoan =>
    /\ 0 <= loan.PaidCount /\ loan.PaidCount <= NumWeeks
    /\ 0 <= loan.Outstanding
    /\ loan.Outstanding <= TotalDue(loan.Principal, loan.APR)
    /\ (loan.Outstanding = 0) <=> (loan.PaidCount = NumWeeks)

\* A payment was offered to a loan with all 50 installments paid and nothing
\* outstanding.
C36_Witness ==
  /\ HasLoan
  /\ op = "MakePayment"
  /\ calls = NumWeeks + 1
  /\ loan.PaidCount = NumWeeks
  /\ loan.Outstanding = 0

\* ---- C37 ----------------------------------------------------------------
\* C37: a successful MakePayment does not make a loan delinquent: at every
\* instant at which IsDelinquent answered false before the payment it answers
\* false after it; and a fully paid loan is delinquent at no instant.
C37_PaymentNeverDelinquent ==
  /\ []((HasLoan /\ PaidSet(loan) = WeekIdx) =>
          ~IsDelinquentResult(loan, clock)[1])
  /\ [][(op' = "MakePayment" /\ err' = Nil
           /\ ~IsDelinquentResult(loan, clock)[1]) =>
          ~IsDelinquentResult(loan', clock')[1]]_vars

\* A payment succeeded in week 4 or later on a loan that was not delinquent.
C37_Witness ==
  /\ HasLoan
  /\ op = "MakePayment"
  /\ err = Nil
  /\ WeekIndexAtResult(loan, clock) >= 4
  /\ loan.PaidCount >= 4
  /\ ~IsDelinquentResult(loan, clock)[1]

\* ---- C38 ----------------------------------------------------------------
\* C38: with no payment in between, the week WeekIndexAt and IsDelinquent
\* observe at a later instant is not smaller, and a loan that IsDelinquent
\* finds delinquent is delinquent at every later instant.
C38_MonotoneInTime ==
  /\ op = "WeekIndexAt" =>
       \A later \in QueryNows :
         later >= clock => ret[1] <= WeekIndexAtResult(loan, later)
  /\ op = "IsDelinquent" =>
       \A later \in QueryNows :
         later >= clock =>
           /\ ret[3] <= IsDelinquentResult(loan, later)[3]
           /\ ret[1] => IsDelinquentResult(loan, later)[1]

\* IsDelinquent found a loan with payments delinquent in the last week of
\* the term, with later instants beyond the term left to compare.
C38_Witness ==
  /\ HasLoan
  /\ op = "IsDelinquent"
  /\ ret[1]
  /\ ret[3] = NumWeeks
  /\ loan.PaidCount > 0
  /\ \E later \in QueryNows : later > clock

\* ---- C34 ----------------------------------------------------------------
\* C34: under every interleaving of pay requests for one loan id the stored
\* loan never goes backwards: the stored PaidCount never decreases and an
\* installment stored as paid is never stored as unpaid afterwards.
C34_NeverBackwards ==
  [][(store # NilLoan /\ store' # NilLoan) =>
       /\ store'.PaidCount >= store.PaidCount
       /\ \A i \in WeekIdx :
            store.Schedule[i].Paid => store'.Schedule[i].Paid]_vars

\* ---- C31 ----------------------------------------------------------------
\* C31: the step that answers a pay request with a rejection (loan not
\* found, amount not positive, wrong amount, loan already paid) leaves the
\* stored loan as it was, so GetByID returns afterwards what it returned
\* before; the stored loan changes only in the step that answers a pay
\* request with success.
C31_RejectedLeavesStore ==
  [][/\ (/\ Len(resp') = Len(resp) + 1
         /\ resp'[Len(resp')].handler = "pay"
         /\ resp'[Len(resp')].status # StatusOK) =>
          /\ resp'[Len(resp')].code \in {CodeLoanNotFound, CodePaymentFailed,
                                         CodeIncorrectPaymentAmount,
                                         CodeLoanAlreadyPaid}
          /\ store' = store
          /\ GetByIDResult(store') = GetByIDResult(store)
     /\ (store # NilLoan /\ store' # store) =>
          /\ Len(resp') = Len(resp) + 1
          /\ resp'[Len(resp')].handler = "pay"
          /\ resp'[Len(resp')].status = StatusOK]_vars

\* A pay request for the loan with all 50 installments stored as paid was
\* answered with the already-paid error.
C31_Witness ==
  /\ store # NilLoan
  /\ PaidSet(store) = WeekIdx
  /\ store.PaidCount = NumWeeks
  /\ Len(resp) >= 2
  /\ resp[Len(resp)].handler = "pay"
  /\ resp[Len(resp)].code = CodeLoanAlreadyPaid

\* ---- C32 ----------------------------------------------------------------
\* Two loans agree on id, principal, weekly due, paid count, outstanding
\* and all 50 installments.
SameLoan(a, b) ==
  /\ a.ID = b.ID
  /\ a.Principal = b.Principal
  /\ a.WeeklyDue = b.WeeklyDue
  /\ a.PaidCount = b.PaidCount
  /\ a.Outstanding = b.Outstanding
  /\ \A i \in WeekIdx : a.Schedule[i] = b.Schedule[i]

\* C32: repository round trip: what GetByID returns after Create(loan) and
\* after Update(loan) agrees with the loan on id, principal, weekly due, paid
\* count, outstanding and the 50 installments, so after one payment and
\* Update it has PaidCount 1 and installment 1 paid; GetByID of an id with no
\* stored loan, never created or deleted, returns ErrLoanNotFound.
C32_RoundTrip ==
  /\ [](op = "GetByID" =>
          IF store = NilLoan
          THEN err = ErrLoanNotFound /\ ret = NoResult
          ELSE /\ err = Nil
               /\ ret = GetByIDResult(store).ret)
  /\ [][/\ (op' = "Create" /\ err' = Nil) =>
             /\ GetByIDResult(store').err = Nil
             /\ SameLoan(GetByIDResult(store').ret[1], loan)
             /\ \A i \in WeekIdx : GetByIDResult(store').ret[1].Schedule[i].Index = i + 1
        /\ (op' = "Update" /\ store # NilLoan) =>
             /\ GetByIDResult(store').err = Nil
             /\ SameLoan(GetByIDResult(store').ret[1], loan)
             /\ (op = "MakePayment" /\ err = Nil /\ loan.PaidCount = 1) =>
                  /\ GetByIDResult(store').ret[1].PaidCount = 1
                  /\ InstallmentPaid(GetByIDResult(store').ret[1], 1)
        /\ op' = "Delete" =>
             GetByIDResult(store').err = ErrLoanNotFound]_vars

\* GetByID returned the loan with PaidCount 1 and installment 1 paid after
\* one payment and Update.
C32_Witness ==
  /\ HasLoan
  /\ op = "GetByID"
  /\ err = Nil
  /\ loan.PaidCount = 1
  /\ ret[1].PaidCount = 1
  /\ InstallmentPaid(ret[1], 1)
  /\ ret[1].Outstanding = (NumWeeks - 1) * loan.WeeklyDue

====
